---- MODULE Spec2Model ----
(***************************************************************************)
(* MessagePool (include/message_pool.h): a fixed pool of NetworkMessage    *)
(* slots, a FIFO free list of slot ids guarded by one std::mutex, and a    *)
(* std::condition_variable on which borrow() waits with a timeout.         *)
(* Threads call borrow(), release() and available(); every statement that  *)
(* runs under the mutex is one step, taking the mutex is a step of its own.*)
(***************************************************************************)
EXTENDS Integers, Sequences, FiniteSets, TLC

\* ---------------------------------------------------------------- bounds
NumThreads == 2
MaxPool == 2
MaxIter == 2
MaxExtra == 1
MaxHanded == 3

Threads == 1..NumThreads
NoOwner == 0
SlotIds == 0..(MaxPool - 1)

VARIABLES
    constructed,  \* the MessagePool constructor has run
    poolSize_,    \* MessagePool::poolSize_
    timeout_,     \* MessagePool::timeout_ (0, or 1 for any positive duration)
    storage_,     \* MessagePool::storage_: storage_[i+1] is the id field of slot i
    freeList_,    \* MessagePool::freeList_
    mutex_,       \* MessagePool::mutex_: the owning thread, or NoOwner
    waitSet,      \* MessagePool::cv_: the threads blocked in the wait
    pc,           \* each thread's position inside its current call
    arg,          \* the handle a thread passed to release()
    expired,      \* the deadline of the thread's current wait_for has passed
    held,         \* held[t][i]: how many handles to slot i thread t holds
    result,       \* the call that returned or threw in the last step, if one did
    iter,         \* iterations a worker thread still has to run
    history       \* when kept: the ids in the order they became free, and
                  \* the ids in the order borrow() returned them

vars == <<constructed, poolSize_, timeout_, storage_, freeList_, mutex_,
          waitSet, pc, arg, expired, held, result, iter, history>>

poolVars == <<constructed, poolSize_, timeout_, storage_>>

\* ---------------------------------------------------------------- values
NoArg == [kind |-> "none", v |-> 0]
SlotHandle(i) == [kind |-> "slot", v |-> i]
ForgedHandle(id) == [kind |-> "forged", v |-> id]

NoResult == [thread |-> 0, kind |-> "none", v |-> 0]
Returned(t, i) == [thread |-> t, kind |-> "slot", v |-> i]
Threw(t, what) == [thread |-> t, kind |-> what, v |-> 0]
Void(t) == [thread |-> t, kind |-> "void", v |-> 0]
Size(t, n) == [thread |-> t, kind |-> "size", v |-> n]

TimeoutMsg == "Timeout waiting for available message"
InvalidMsg == "Invalid message ID"

\* msg->id: a pool slot carries the id the constructor stored, a message
\* that is not the pool's carries whatever its owner wrote.
MsgId(h) == IF h.kind = "slot" THEN storage_[h.v + 1] ELSE h.v

\* ---------------------------------------------------------------- the order of frees and borrows
\* `trip` follows a borrow() and the release() that comes next: the free
\* list as the borrow found it and the id it handed out, then whether the
\* next change of the free list was the push of that id.
NoTrip == [phase |-> "none", id |-> 0, was |-> <<>>]
NoHistory == [on |-> FALSE, freed |-> <<>>, handed |-> <<>>, trip |-> NoTrip]
Freed(id) ==
    IF history.on
    THEN [history EXCEPT
            !.freed = Append(@, id),
            !.trip = IF @.phase = "borrowed" /\ @.id = id
                     THEN [@ EXCEPT !.phase = "returned"]
                     ELSE NoTrip]
    ELSE history
Handed(id) ==
    IF history.on
    THEN [history EXCEPT
            !.handed = Append(@, id),
            !.trip = [phase |-> "borrowed", id |-> id, was |-> freeList_]]
    ELSE history

\* ---------------------------------------------------------------- constructor
\* a constructor that pushes each new id at the front of the free list
RECURSIVE CtorLoopFront(_, _, _, _)
CtorLoopFront(i, n, st, fl) ==
    IF i < n
    THEN CtorLoopFront(i + 1, n, Append(st, i), <<i>> \o fl)
    ELSE <<st, fl>>

\* a constructor that numbers the slots from 1
RECURSIVE CtorLoopFromOne(_, _, _, _)
CtorLoopFromOne(i, n, st, fl) ==
    IF i < n
    THEN CtorLoopFromOne(i + 1, n, Append(st, i + 1), Append(fl, i + 1))
    ELSE <<st, fl>>

RECURSIVE CtorLoop(_, _, _, _)
CtorLoop(i, n, st, fl) ==
    IF i < n
    THEN CtorLoop(i + 1, n, Append(st, i), Append(fl, i))
    ELSE <<st, fl>>

InitPool ==
    /\ constructed = FALSE
    /\ poolSize_ = 0
    /\ timeout_ = 0
    /\ storage_ = <<>>
    /\ freeList_ = <<>>
    /\ mutex_ = NoOwner
    /\ waitSet = {}
    /\ pc = [t \in Threads |-> "idle"]
    /\ arg = [t \in Threads |-> NoArg]
    /\ expired = [t \in Threads |-> FALSE]
    /\ held = [t \in Threads |-> [i \in SlotIds |-> 0]]
    /\ result = NoResult

Init ==
    /\ InitPool
    /\ iter = [t \in Threads |-> 0]
    /\ history = NoHistory

Construct(n, to) ==
    /\ ~constructed
    /\ constructed' = TRUE
    /\ poolSize_' = n
    /\ timeout_' = to
    /\ storage_' = CtorLoop(0, n, <<>>, <<>>)[1]
    /\ freeList_' = CtorLoop(0, n, <<>>, <<>>)[2]
    /\ result' = NoResult
    /\ history' = [history EXCEPT !.freed = [k \in 1..n |-> k - 1]]
    /\ UNCHANGED <<mutex_, waitSet, pc, arg, expired, held, iter>>

\* ---------------------------------------------------------------- borrow()
BorrowCall(t) ==
    /\ constructed
    /\ pc[t] = "idle"
    /\ pc' = [pc EXCEPT ![t] = "b_lock"]
    /\ result' = NoResult
    /\ UNCHANGED <<poolVars, freeList_, mutex_, waitSet, arg, expired, held, history>>

BorrowLock(t) ==
    /\ pc[t] = "b_lock"
    /\ mutex_ = NoOwner
    /\ mutex_' = t
    /\ pc' = [pc EXCEPT ![t] = "b_pred"]
    /\ result' = NoResult
    /\ UNCHANGED <<poolVars, freeList_, waitSet, arg, expired, held, iter, history>>

\* a borrow that returns the front slot and forgets to erase it
TakeFrontNoErase(t) ==
    /\ freeList_' = freeList_
    /\ held' = [held EXCEPT ![t][Head(freeList_)] = @ + 1]
    /\ result' = Returned(t, Head(freeList_))
    /\ mutex_' = NoOwner
    /\ pc' = [pc EXCEPT ![t] = "idle"]
    /\ expired' = [expired EXCEPT ![t] = FALSE]
    /\ history' = Handed(Head(freeList_))
    /\ UNCHANGED <<waitSet>>

\* a borrow that takes the slot released last (back(), pop_back())
TakeBack(t) ==
    /\ freeList_' = SubSeq(freeList_, 1, Len(freeList_) - 1)
    /\ held' = [held EXCEPT ![t][freeList_[Len(freeList_)]] = @ + 1]
    /\ result' = Returned(t, freeList_[Len(freeList_)])
    /\ mutex_' = NoOwner
    /\ pc' = [pc EXCEPT ![t] = "idle"]
    /\ expired' = [expired EXCEPT ![t] = FALSE]
    /\ history' = Handed(freeList_[Len(freeList_)])
    /\ UNCHANGED <<waitSet>>

\* index = freeList_.front(); erase(begin()); return storage_[index].get();
\* the unique_lock's destructor unlocks.
TakeFront(t) ==
    /\ freeList_' = Tail(freeList_)
    /\ held' = [held EXCEPT ![t][Head(freeList_)] = @ + 1]
    /\ result' = Returned(t, Head(freeList_))
    /\ mutex_' = NoOwner
    /\ pc' = [pc EXCEPT ![t] = "idle"]
    /\ expired' = [expired EXCEPT ![t] = FALSE]
    /\ history' = Handed(Head(freeList_))
    /\ UNCHANGED <<waitSet>>

\* a wait that blocks without unlocking the mutex
EnterWaitLocked(t, late) ==
    /\ mutex_' = mutex_
    /\ waitSet' = waitSet \cup {t}
    /\ pc' = [pc EXCEPT ![t] = "b_wait"]
    /\ expired' = [expired EXCEPT ![t] = late]
    /\ result' = NoResult
    /\ UNCHANGED <<freeList_, held, history>>

\* cv_.wait_until(lock, atime): unlock and block, atomically; `late` says
\* whether the deadline atime has passed already.
EnterWait(t, late) ==
    /\ mutex_' = NoOwner
    /\ waitSet' = waitSet \cup {t}
    /\ pc' = [pc EXCEPT ![t] = "b_wait"]
    /\ expired' = [expired EXCEPT ![t] = late]
    /\ result' = NoResult
    /\ UNCHANGED <<freeList_, held, history>>

\* a timeout that leaves borrow() with the mutex still locked
ThrowTimeoutLocked(t) ==
    /\ result' = Threw(t, TimeoutMsg)
    /\ mutex_' = mutex_
    /\ pc' = [pc EXCEPT ![t] = "idle"]
    /\ expired' = [expired EXCEPT ![t] = FALSE]
    /\ UNCHANGED <<freeList_, held, waitSet, history>>

ThrowTimeout(t) ==
    /\ result' = Threw(t, TimeoutMsg)
    /\ mutex_' = NoOwner
    /\ pc' = [pc EXCEPT ![t] = "idle"]
    /\ expired' = [expired EXCEPT ![t] = FALSE]
    /\ UNCHANGED <<freeList_, held, waitSet, history>>

\* a wait_for whose deadline is never reached on entry, even with timeout_ 0
BorrowPredLateDeadline(t) ==
    /\ pc[t] = "b_pred"
    /\ mutex_ = t
    /\ IF freeList_ # <<>> THEN TakeFront(t) ELSE EnterWait(t, FALSE)
    /\ UNCHANGED <<poolVars, arg, iter>>

\* wait_for(lock, timeout_, pred): the deadline is now + timeout_, then
\* while (!pred()) wait_until(lock, deadline)
BorrowPred(t) ==
    /\ pc[t] = "b_pred"
    /\ mutex_ = t
    /\ IF freeList_ # <<>> THEN TakeFront(t) ELSE EnterWait(t, timeout_ = 0)
    /\ UNCHANGED <<poolVars, arg, iter>>

\* a wait that returns without taking the mutex again
BorrowRelockNoLock(t) ==
    /\ pc[t] = "b_relock"
    /\ pc' = [pc EXCEPT ![t] = "b_recheck"]
    /\ result' = NoResult
    /\ UNCHANGED <<poolVars, freeList_, mutex_, waitSet, arg, expired, held, iter, history>>

\* the unblocked thread takes the mutex again before wait_until returns
BorrowRelock(t) ==
    /\ pc[t] = "b_relock"
    /\ mutex_ = NoOwner
    /\ mutex_' = t
    /\ pc' = [pc EXCEPT ![t] = "b_recheck"]
    /\ result' = NoResult
    /\ UNCHANGED <<poolVars, freeList_, waitSet, arg, expired, held, iter, history>>

\* a wait that reports the timeout without evaluating the predicate again
BorrowRecheckNoPred(t) ==
    /\ pc[t] = "b_recheck"
    /\ mutex_ = t
    /\ IF expired[t] THEN ThrowTimeout(t)
       ELSE IF freeList_ # <<>> THEN TakeFront(t)
       ELSE EnterWait(t, FALSE)
    /\ UNCHANGED <<poolVars, arg, iter>>

\* a wait that ignores the deadline: it waits again whenever the list is empty
BorrowRecheckNoDeadline(t) ==
    /\ pc[t] = "b_recheck"
    /\ mutex_ = t
    /\ IF freeList_ # <<>> THEN TakeFront(t) ELSE EnterWait(t, expired[t])
    /\ UNCHANGED <<poolVars, arg, iter>>

\* a wait that trusts a wake: woken before its deadline it takes a slot
\* without evaluating the predicate again; front() of an empty list then
\* yields any slot of the pool
BorrowRecheckTrustsWake(t) ==
    /\ pc[t] = "b_recheck"
    /\ mutex_ = t
    /\ IF freeList_ # <<>> THEN TakeFront(t)
       ELSE IF expired[t] \/ poolSize_ = 0 THEN ThrowTimeout(t)
       ELSE \E i \in 0..(poolSize_ - 1) :
               /\ held' = [held EXCEPT ![t][i] = @ + 1]
               /\ result' = Returned(t, i)
               /\ mutex_' = NoOwner
               /\ pc' = [pc EXCEPT ![t] = "idle"]
               /\ expired' = [expired EXCEPT ![t] = FALSE]
               /\ history' = Handed(i)
               /\ UNCHANGED <<freeList_, waitSet>>
    /\ UNCHANGED <<poolVars, arg, iter>>

\* after a wake: on cv_status::timeout return pred(), else loop on pred()
BorrowRecheck(t) ==
    /\ pc[t] = "b_recheck"
    /\ mutex_ = t
    /\ IF freeList_ # <<>> THEN TakeFront(t)
       ELSE IF expired[t] THEN ThrowTimeout(t)
       ELSE EnterWait(t, FALSE)
    /\ UNCHANGED <<poolVars, arg, iter>>

\* the deadline now + timeout_ of the thread's wait passes
Expire(t) ==
    /\ pc[t] \in {"b_wait", "b_relock", "b_recheck"}
    /\ ~expired[t]
    /\ expired' = [expired EXCEPT ![t] = TRUE]
    /\ result' = NoResult
    /\ UNCHANGED <<poolVars, freeList_, mutex_, waitSet, pc, arg, held, iter, history>>

Unblock(t) ==
    /\ waitSet' = waitSet \ {t}
    /\ pc' = [pc EXCEPT ![t] = "b_relock"]

TimeoutWake(t) ==
    /\ pc[t] = "b_wait"
    /\ expired[t]
    /\ Unblock(t)
    /\ result' = NoResult
    /\ UNCHANGED <<poolVars, freeList_, mutex_, arg, expired, held, iter, history>>

SpuriousWake(t) ==
    /\ pc[t] = "b_wait"
    /\ ~expired[t]
    /\ Unblock(t)
    /\ result' = NoResult
    /\ UNCHANGED <<poolVars, freeList_, mutex_, arg, expired, held, iter, history>>

\* ---------------------------------------------------------------- release()
\* a release(nullptr) that goes on to notify_one
ReleaseNullNotifies(t) ==
    /\ constructed
    /\ pc[t] = "idle"
    /\ result' = Void(t)
    /\ IF waitSet = {}
       THEN UNCHANGED <<waitSet, pc>>
       ELSE \E w \in waitSet :
               /\ pc' = [pc EXCEPT ![w] = "b_relock"]
               /\ waitSet' = waitSet \ {w}
    /\ UNCHANGED <<poolVars, freeList_, mutex_, arg, expired, held, iter, history>>

\* if (!msg) return;
ReleaseNull(t) ==
    /\ constructed
    /\ pc[t] = "idle"
    /\ result' = Void(t)
    /\ UNCHANGED <<poolVars, freeList_, mutex_, waitSet, pc, arg, expired, held, iter, history>>

ReleaseCall(t, h) ==
    /\ constructed
    /\ pc[t] = "idle"
    /\ pc' = [pc EXCEPT ![t] = "r_lock"]
    /\ arg' = [arg EXCEPT ![t] = h]
    /\ held' = IF h.kind = "slot" /\ held[t][h.v] > 0
               THEN [held EXCEPT ![t][h.v] = @ - 1]
               ELSE held
    /\ result' = NoResult
    /\ UNCHANGED <<poolVars, freeList_, mutex_, waitSet, expired, iter, history>>

ReleaseLock(t) ==
    /\ pc[t] = "r_lock"
    /\ mutex_ = NoOwner
    /\ mutex_' = t
    /\ pc' = [pc EXCEPT ![t] = "r_check"]
    /\ result' = NoResult
    /\ UNCHANGED <<poolVars, freeList_, waitSet, arg, expired, held, iter, history>>

\* a range check that is off by one at the upper end
InvalidIdOffByOne(id) == id < 0 \/ id > poolSize_

\* msg->id < 0 || static_cast<size_t>(msg->id) >= poolSize_
InvalidId(id) == id < 0 \/ id >= poolSize_

\* a release that puts the id back at the front of the free list
ReleaseCheckPushFront(t) ==
    /\ pc[t] = "r_check"
    /\ mutex_ = t
    /\ IF InvalidId(MsgId(arg[t]))
       THEN /\ result' = Threw(t, InvalidMsg)
            /\ pc' = [pc EXCEPT ![t] = "idle"]
            /\ UNCHANGED <<freeList_, history>>
       ELSE /\ freeList_' = <<MsgId(arg[t])>> \o freeList_
            /\ pc' = [pc EXCEPT ![t] = "r_notify"]
            /\ result' = NoResult
            /\ history' = Freed(MsgId(arg[t]))
    /\ mutex_' = NoOwner
    /\ arg' = [arg EXCEPT ![t] = NoArg]
    /\ UNCHANGED <<poolVars, waitSet, expired, held, iter>>

\* a release that pushes the id before it validates it
ReleaseCheckPushFirst(t) ==
    /\ pc[t] = "r_check"
    /\ mutex_ = t
    /\ freeList_' = Append(freeList_, MsgId(arg[t]))
    /\ history' = Freed(MsgId(arg[t]))
    /\ IF InvalidId(MsgId(arg[t]))
       THEN /\ result' = Threw(t, InvalidMsg)
            /\ pc' = [pc EXCEPT ![t] = "idle"]
       ELSE /\ pc' = [pc EXCEPT ![t] = "r_notify"]
            /\ result' = NoResult
    /\ mutex_' = NoOwner
    /\ arg' = [arg EXCEPT ![t] = NoArg]
    /\ UNCHANGED <<poolVars, waitSet, expired, held, iter>>

\* the block under the lock_guard: throw, or push_back; both leave it unlocked
ReleaseCheck(t) ==
    /\ pc[t] = "r_check"
    /\ mutex_ = t
    /\ IF InvalidId(MsgId(arg[t]))
       THEN /\ result' = Threw(t, InvalidMsg)
            /\ pc' = [pc EXCEPT ![t] = "idle"]
            /\ UNCHANGED <<freeList_, history>>
       ELSE /\ freeList_' = Append(freeList_, MsgId(arg[t]))
            /\ pc' = [pc EXCEPT ![t] = "r_notify"]
            /\ result' = NoResult
            /\ history' = Freed(MsgId(arg[t]))
    /\ mutex_' = NoOwner
    /\ arg' = [arg EXCEPT ![t] = NoArg]
    /\ UNCHANGED <<poolVars, waitSet, expired, held, iter>>

\* a notify that unblocks no thread
NotifyNone(t) ==
    /\ pc' = [pc EXCEPT ![t] = "idle"]
    /\ UNCHANGED waitSet

\* cv_.notify_one(): unblocks one of the waiting threads, if there is one
NotifyOne(t) ==
    IF waitSet = {}
    THEN /\ pc' = [pc EXCEPT ![t] = "idle"]
         /\ UNCHANGED waitSet
    ELSE \E w \in waitSet :
            /\ pc' = [pc EXCEPT ![t] = "idle", ![w] = "b_relock"]
            /\ waitSet' = waitSet \ {w}

ReleaseNotify(t) ==
    /\ pc[t] = "r_notify"
    /\ NotifyOne(t)
    /\ result' = Void(t)
    /\ UNCHANGED <<poolVars, freeList_, mutex_, arg, expired, held, iter, history>>

\* cv_.notify_all() in the place of cv_.notify_one(): unblocks every
\* waiting thread
NotifyAll(t) ==
    /\ pc' = [u \in Threads |->
                IF u = t THEN "idle"
                ELSE IF u \in waitSet THEN "b_relock"
                ELSE pc[u]]
    /\ waitSet' = {}

ReleaseNotifyAll(t) ==
    /\ pc[t] = "r_notify"
    /\ NotifyAll(t)
    /\ result' = Void(t)
    /\ UNCHANGED <<poolVars, freeList_, mutex_, arg, expired, held, iter, history>>

\* ---------------------------------------------------------------- available(), capacity()
AvailableCall(t) ==
    /\ constructed
    /\ pc[t] = "idle"
    /\ pc' = [pc EXCEPT ![t] = "a_lock"]
    /\ result' = NoResult
    /\ UNCHANGED <<poolVars, freeList_, mutex_, waitSet, arg, expired, held, iter, history>>

AvailableLock(t) ==
    /\ pc[t] = "a_lock"
    /\ mutex_ = NoOwner
    /\ mutex_' = t
    /\ pc' = [pc EXCEPT ![t] = "a_read"]
    /\ result' = NoResult
    /\ UNCHANGED <<poolVars, freeList_, waitSet, arg, expired, held, iter, history>>

AvailableRead(t) ==
    /\ pc[t] = "a_read"
    /\ mutex_ = t
    /\ result' = Size(t, Len(freeList_))
    /\ mutex_' = NoOwner
    /\ pc' = [pc EXCEPT ![t] = "idle"]
    /\ UNCHANGED <<poolVars, freeList_, waitSet, arg, expired, held, iter, history>>

capacity == poolSize_

\* ---------------------------------------------------------------- callers
\* borrow() from a caller that is not a counted worker
Borrow(t) == BorrowCall(t) /\ UNCHANGED iter

\* release() of a handle the caller got from borrow() and still holds
ReleaseHeld(t) ==
    \E i \in SlotIds : held[t][i] > 0 /\ ReleaseCall(t, SlotHandle(i))

\* release() of a message that is not the pool's, with an id out of range
\* (MessagePoolTest.InvalidRelease: id -1, id == capacity)
ReleaseOutOfRange(t) ==
    \E id \in {-1, poolSize_} : ReleaseCall(t, ForgedHandle(id))

\* what the threads do inside their calls, and time passing
BorrowStep(t) ==
    \/ BorrowLock(t)
    \/ BorrowPred(t)
    \/ BorrowRelock(t)
    \/ BorrowRecheck(t)

ReleaseStep(t) ==
    \/ ReleaseLock(t)
    \/ ReleaseCheck(t)
    \/ ReleaseNotify(t)

AvailableStep(t) ==
    \/ AvailableLock(t)
    \/ AvailableRead(t)

Wake(t) ==
    \/ Expire(t)
    \/ TimeoutWake(t)
    \/ SpuriousWake(t)

Create == \E n \in 0..MaxPool, to \in {0, 1} : Construct(n, to)

Next ==
    \/ Create
    \/ \E t \in Threads :
        \/ Borrow(t)
        \/ ReleaseHeld(t)
        \/ ReleaseOutOfRange(t)
        \/ ReleaseNull(t)
        \/ AvailableCall(t)
        \/ BorrowStep(t)
        \/ ReleaseStep(t)
        \/ AvailableStep(t)
        \/ Wake(t)

Spec == Init /\ [][Next]_vars

\* ---------------------------------------------------------------- callers that misuse release()
RECURSIVE HeldUpTo(_, _)
HeldUpTo(t, k) == IF k < 0 THEN 0 ELSE held[t][k] + HeldUpTo(t, k - 1)

\* the handles thread t holds
HeldBy(t) == HeldUpTo(t, MaxPool - 1)

\* thread t is inside release() with a handle whose id is still to be pushed
InFlight(t) ==
    IF pc[t] \in {"r_lock", "r_check"} /\ ~InvalidId(MsgId(arg[t])) THEN 1 ELSE 0

RECURSIVE LiveUpTo(_)
LiveUpTo(t) == IF t = 0 THEN 0 ELSE HeldBy(t) + InFlight(t) + LiveUpTo(t - 1)

\* ids in the free list, in callers' hands or on their way back
Live == Len(freeList_) + LiveUpTo(NumThreads)

\* release() of a pool slot the caller does not hold: a second release of a
\* handle, or a release of a handle never borrowed
ReleaseStale(t) ==
    \E i \in 0..(poolSize_ - 1) :
        /\ held[t][i] = 0
        /\ Live < poolSize_ + MaxExtra
        /\ ReleaseCall(t, SlotHandle(i))

\* release() of a message that is not the pool's but carries an id in range
\* (MessagePoolTest.InvalidRelease: invalidMsg.id = 0)
ReleaseForged(t) ==
    \E id \in 0..(poolSize_ - 1) :
        /\ Live < poolSize_ + MaxExtra
        /\ ReleaseCall(t, ForgedHandle(id))

NextMisuse ==
    \/ Next
    \/ \E t \in Threads :
        \/ ReleaseStale(t)
        \/ ReleaseForged(t)

SpecMisuse == Init /\ [][NextMisuse]_vars

\* ---------------------------------------------------------------- worker threads
\* MessagePoolTest.ThreadSafety: each worker runs a fixed number of
\* iterations of borrow / work / release; a borrow that throws ends the
\* iteration.
InitWorkers ==
    /\ InitPool
    /\ iter = [t \in Threads |-> MaxIter]
    /\ history = NoHistory

WorkerBorrow(t) ==
    /\ iter[t] > 0
    /\ HeldBy(t) = 0
    /\ BorrowCall(t)
    /\ iter' = [iter EXCEPT ![t] = @ - 1]

WorkerStep(t) ==
    \/ WorkerBorrow(t)
    \/ ReleaseHeld(t)
    \/ BorrowStep(t)
    \/ ReleaseStep(t)

NextWorkers ==
    \/ Create
    \/ \E t \in Threads :
        \/ WorkerStep(t)
        \/ Wake(t)

\* every thread is scheduled again and again, time passes, and a timed
\* wait whose deadline has passed returns
SpecWorkers ==
    /\ InitWorkers
    /\ [][NextWorkers]_vars
    /\ WF_vars(Create)
    /\ \A t \in Threads :
        /\ WF_vars(WorkerStep(t))
        /\ WF_vars(Expire(t))
        /\ WF_vars(TimeoutWake(t))

\* the same threads when nothing makes them call: a thread inside a call is
\* scheduled, time passes and an expired wait returns, but a thread outside
\* the pool may stay there, holding what it holds
SpecBorrowers ==
    /\ InitWorkers
    /\ [][NextWorkers]_vars
    /\ \A t \in Threads :
        /\ WF_vars(BorrowStep(t) \/ ReleaseStep(t))
        /\ WF_vars(Expire(t) \/ TimeoutWake(t))

\* ---------------------------------------------------------------- callers whose order is recorded
\* borrow() and release() of held handles by any thread, with the order of
\* frees and borrows kept; no borrow() starts once MaxHanded have returned
InitFifo ==
    /\ InitPool
    /\ iter = [t \in Threads |-> 0]
    /\ history = [NoHistory EXCEPT !.on = TRUE]

FifoBorrow(t) == Len(history.handed) < MaxHanded /\ Borrow(t)

NextFifo ==
    \/ Create
    \/ \E t \in Threads :
        \/ FifoBorrow(t)
        \/ ReleaseHeld(t)
        \/ BorrowStep(t)
        \/ ReleaseStep(t)
        \/ Wake(t)

SpecFifo == InitFifo /\ [][NextFifo]_vars

\* ---------------------------------------------------------------- a pool that wakes all waiters
\* the pool with release() waking every waiter; waiters are also woken
\* spuriously at any time
NextWakeAll ==
    \/ Create
    \/ \E t \in Threads :
        \/ Borrow(t)
        \/ ReleaseHeld(t)
        \/ BorrowStep(t)
        \/ ReleaseLock(t)
        \/ ReleaseCheck(t)
        \/ ReleaseNotifyAll(t)
        \/ Wake(t)

SpecWakeAll == Init /\ [][NextWakeAll]_vars

\* ================================================================ properties
available == Len(freeList_)

\* handles to slot i that callers hold or are handing back
RECURSIVE OutstandingUpTo(_, _)
OutstandingUpTo(t, i) ==
    IF t = 0 THEN 0
    ELSE held[t][i] + (IF arg[t] = SlotHandle(i) THEN 1 ELSE 0)
         + OutstandingUpTo(t - 1, i)

Outstanding(i) == OutstandingUpTo(NumThreads, i)

RECURSIVE OutstandingBelow(_)
OutstandingBelow(i) ==
    IF i < 0 THEN 0 ELSE Outstanding(i) + OutstandingBelow(i - 1)

OutstandingCount == OutstandingBelow(MaxPool - 1)

NoDuplicates(seq) ==
    \A j, k \in 1..Len(seq) : j # k => seq[j] # seq[k]

\* the step is thread t leaving position p
Leaves(t, p) == pc[t] = p /\ pc'[t] # p

\* C1: when callers release only handles they hold, no slot is outstanding
\* twice: not with two callers, not twice with one caller.
NoAliasing == \A i \in SlotIds : Outstanding(i) <= 1

\* C1 witness: both slots of a pool are out with two different callers, the
\* second one handed out just now.
NoAliasingWitness ==
    \E t1, t2 \in Threads :
        /\ t1 # t2
        /\ freeList_ = <<>>
        /\ held[t1][0] = 1
        /\ held[t2][1] = 1
        /\ result = Returned(t2, 1)

\* C2 (invariant I1): the free list holds only ids of [0, N), none twice, and
\* its length plus the number of outstanding slots is N.
CapacityConservation ==
    constructed =>
        /\ \A k \in 1..Len(freeList_) : freeList_[k] \in 0..(poolSize_ - 1)
        /\ NoDuplicates(freeList_)
        /\ available + OutstandingCount = capacity

\* C2 witness: slot 0 is free again after a release while slot 1 is out, and
\* no thread is inside a call.
CapacityConservationWitness ==
    /\ poolSize_ = 2
    /\ freeList_ = <<0>>
    /\ \E t \in Threads : held[t][1] = 1
    /\ \A t \in Threads : pc[t] = "idle"

\* C3: a release of a handle whose id is in range but whose slot is free
\* already never leaves an id in the free list twice.
ReleaseNeverDuplicates == constructed => NoDuplicates(freeList_)

\* C4: no call of available() returns more than capacity() or less than 0.
AvailableWithinCapacity ==
    result.kind = "size" => (0 <= result.v /\ result.v <= capacity)

\* C5: release() of a message whose id is negative or >= capacity() throws
\* "Invalid message ID", leaves the free list as it was and wakes no waiter.
InvalidReleaseRejected ==
    [][\A t \in Threads :
          (/\ Leaves(t, "r_check")
           /\ (arg[t].v < 0 \/ arg[t].v >= poolSize_))
          => /\ result' = Threw(t, InvalidMsg)
             /\ pc'[t] = "idle"
             /\ freeList_' = freeList_
             /\ waitSet' = waitSet
             /\ \A w \in Threads : pc[w] = "b_wait" => pc'[w] = "b_wait"]_vars

\* C5 witness: a release has just been rejected while another thread waits
\* in borrow() on an empty free list.
InvalidReleaseRejectedWitness ==
    \E t, w \in Threads :
        /\ result = Threw(t, InvalidMsg)
        /\ pc[w] = "b_wait"
        /\ poolSize_ > 0
        /\ freeList_ = <<>>

\* C6: a borrow() whose deadline has passed and that finds the free list
\* empty throws the timeout error, takes no slot and leaves the free list
\* as it was; and a borrow() throws it only then.
TimeoutOnlyWhenEmpty ==
    [][\A t \in Threads :
          /\ (Leaves(t, "b_recheck") /\ expired[t] /\ freeList_ = <<>>)
             => result' = Threw(t, TimeoutMsg)
          /\ result' = Threw(t, TimeoutMsg)
             => /\ pc[t] = "b_recheck"
                /\ expired[t]
                /\ freeList_ = <<>>
                /\ freeList_' = freeList_
                /\ held' = held
                /\ pc'[t] = "idle"]_vars

\* C6 witness: a borrow() with a positive timeout has just timed out on a
\* pool whose slots are all out.
TimeoutOnlyWhenEmptyWitness ==
    \E t \in Threads :
        /\ result = Threw(t, TimeoutMsg)
        /\ timeout_ = 1
        /\ poolSize_ > 0
        /\ OutstandingCount = poolSize_

\* C7: the ids borrow() has returned, followed by the free list, are the ids
\* in the order they became free (0..N-1 at construction, then every
\* release): slots are handed out in the order they became free.
FifoReuse ==
    (history.on /\ constructed) =>
        history.freed = history.handed \o freeList_

\* C7 witness: a slot released earlier has been handed out again, after
\* every slot of the pool had been handed out once.
FifoReuseWitness ==
    /\ history.on
    /\ poolSize_ = 2
    /\ Len(history.handed) = 3
    /\ history.handed[3] = 1

\* every worker has run its iterations and is outside the pool's calls
AllDone ==
    /\ constructed
    /\ \A t \in Threads : pc[t] = "idle" /\ iter[t] = 0 /\ HeldBy(t) = 0

\* C8: the workers all finish, and from then on available() == capacity().
WorkersFinishWithoutLeak == <>[](AllDone /\ available = capacity)

\* C8 witness: the workers of a pool smaller than their number, with a
\* positive timeout, are all done and the pool is full.
WorkersFinishWithoutLeakWitness ==
    /\ AllDone
    /\ poolSize_ >= 1
    /\ poolSize_ < NumThreads
    /\ timeout_ = 1
    /\ available = capacity

\* C9: no pool of capacity 0 is ever constructed.
NoEmptyPool == constructed => capacity > 0

\* C10: the constructor leaves the free list 0, 1, ..., N-1, slot i with id
\* i, no slot outstanding and available() == capacity() == N.
ConstructedAscending ==
    [][(~constructed /\ constructed') =>
          /\ freeList_' = [k \in 1..poolSize_' |-> k - 1]
          /\ storage_' = [k \in 1..poolSize_' |-> k - 1]
          /\ Len(freeList_') = poolSize_'
          /\ \A t \in Threads : \A i \in SlotIds : held'[t][i] = 0
          /\ \A t \in Threads : pc'[t] = "idle"]_vars

\* C10 witness: a pool of capacity 2 right after its construction.
ConstructedAscendingWitness ==
    /\ constructed
    /\ poolSize_ = 2
    /\ freeList_ = <<0, 1>>
    /\ result = NoResult
    /\ OutstandingCount = 0
    /\ \A t \in Threads : pc[t] = "idle"

\* thread t is inside borrow()
InBorrow(t) == pc[t] \in {"b_lock", "b_pred", "b_wait", "b_relock", "b_recheck"}

\* C11: every borrow() returns, with a slot or with the timeout error, also
\* when the threads holding the slots never release them: no thread stays
\* inside borrow() from some point on.
BorrowReturns == \A t \in Threads : []<>(~InBorrow(t))

\* C11 witness: a borrow() has timed out while the other threads stay
\* outside the pool and keep every slot.
BorrowReturnsWitness ==
    \E t \in Threads :
        /\ result = Threw(t, TimeoutMsg)
        /\ poolSize_ > 0
        /\ HeldBy(t) = 0
        /\ \A u \in Threads : pc[u] = "idle"
        /\ LiveUpTo(NumThreads) = poolSize_

\* C12: with capacity K, every id borrow() has returned, in runs of any
\* length, lies in [0, K).
ReuseBound ==
    history.on =>
        \A k \in 1..Len(history.handed) : history.handed[k] \in 0..(capacity - 1)

\* C12 witness: K + 1 = 3 borrows in a row on a pool of 2, each released
\* before the next: ids 0, 1 and 0 again, with 1 free.
ReuseBoundWitness ==
    /\ history.on
    /\ poolSize_ = 2
    /\ history.handed = <<0, 1, 0>>
    /\ freeList_ = <<1>>
    /\ history.freed = <<0, 1, 0, 1>>

\* C13 as claimed: on a pool whose timeout is zero no thread ever enters the
\* wait set.
ZeroTimeoutNeverWaits == (constructed /\ timeout_ = 0) => waitSet = {}

\* C13 as amended: on a pool whose timeout is zero, borrow() returns the
\* front slot when it finds the free list non-empty; when it finds it empty
\* it enters the wait with the mutex released and its deadline passed
\* already, so that it is never in the wait with time left; and once it has
\* the mutex again it returns at once, with the front slot if one was
\* released meanwhile and with the timeout error otherwise.
ZeroTimeoutPoll ==
    [][(constructed /\ timeout_ = 0) =>
          \A t \in Threads :
             /\ (Leaves(t, "b_pred") /\ freeList_ # <<>>)
                => result' = Returned(t, Head(freeList_))
             /\ (Leaves(t, "b_pred") /\ freeList_ = <<>>)
                => /\ pc'[t] = "b_wait"
                   /\ expired'[t]
                   /\ mutex_' = NoOwner
             /\ pc[t] = "b_wait" => expired[t]
             /\ Leaves(t, "b_recheck")
                => /\ pc'[t] = "idle"
                   /\ result' = IF freeList_ # <<>>
                                THEN Returned(t, Head(freeList_))
                                ELSE Threw(t, TimeoutMsg)]_vars

\* C13 witness: a borrow() on a pool of timeout zero, all of whose slots
\* are out, has just failed with the timeout error.
ZeroTimeoutPollWitness ==
    \E t \in Threads :
        /\ timeout_ = 0
        /\ poolSize_ > 0
        /\ result = Threw(t, TimeoutMsg)
        /\ freeList_ = <<>>

\* C14: release(nullptr) is a no-op. A call that a thread makes and ends in
\* one step, without entering the pool, ends without an error and leaves
\* the mutex, the free list, the waiters and every thread's position and
\* handles as they were.
ReleaseNullNoOp ==
    [][\A t \in Threads :
          (pc[t] = "idle" /\ pc'[t] = "idle" /\ result'.thread = t) =>
             /\ result' = Void(t)
             /\ UNCHANGED <<freeList_, mutex_, waitSet, pc, arg, expired, held>>]_vars

\* C14 witness: release(nullptr) has just returned while every other thread
\* is suspended in borrow()'s wait on an empty pool, with the mutex free.
ReleaseNullNoOpWitness ==
    \E t \in Threads :
        /\ result = Void(t)
        /\ pc[t] = "idle"
        /\ HeldBy(t) = poolSize_
        /\ poolSize_ > 0
        /\ freeList_ = <<>>
        /\ mutex_ = NoOwner
        /\ waitSet = Threads \ {t}
        /\ \A w \in Threads \ {t} : pc[w] = "b_wait"

\* thread t is suspended in borrow()'s wait
Suspended(t) == pc[t] = "b_wait"

\* a wake is pending: a release() has pushed and not yet notified, or a
\* waiter that was unblocked has not yet evaluated the predicate again
WakePending ==
    \E t \in Threads : pc[t] \in {"r_notify", "b_relock", "b_recheck"}

AccessesFreeList(t) == pc[t] \in {"b_pred", "b_recheck", "r_check", "a_read"}

LockHeldWhereUsed ==
    /\ \A t \in Threads : AccessesFreeList(t) <=> mutex_ = t
    /\ Cardinality({t \in Threads : AccessesFreeList(t)}) <= 1
    /\ \A t \in Threads : Suspended(t) => (mutex_ # t /\ t \in waitSet)

\* C17: single-lock discipline. A thread is at a position that reads or
\* writes the free list exactly when it holds the mutex, at most one thread
\* is at such a position, a thread suspended in the wait does not hold the
\* mutex, and once the pool is constructed every step that changes the free
\* list, or returns its size, is a step of the thread that holds the mutex.
SingleLockDiscipline ==
    [][/\ LockHeldWhereUsed
       /\ LockHeldWhereUsed'
       /\ (constructed /\ (freeList_' # freeList_ \/ result'.kind = "size")) =>
             \E t \in Threads :
                /\ mutex_ = t
                /\ AccessesFreeList(t)
                /\ pc'[t] # pc[t]
                /\ mutex_' = NoOwner]_vars

\* C17 witness: one thread holds the mutex in release(), about to push the
\* slot it hands back, while another is suspended in borrow()'s wait on the
\* empty free list.
SingleLockDisciplineWitness ==
    \E t, w \in Threads :
        /\ pc[t] = "r_check"
        /\ mutex_ = t
        /\ Suspended(w)
        /\ freeList_ = <<>>
        /\ arg[t].kind = "slot"

\* thread t is inside release()
InRelease(t) == pc[t] \in {"r_lock", "r_check", "r_notify"}

\* thread t can take a step of the call it is in, or the clock of its timed
\* wait can: its deadline passes, or its expired wait returns
CanStep(t) ==
    ENABLED (BorrowStep(t) \/ ReleaseStep(t) \/ AvailableStep(t)
                \/ Expire(t) \/ TimeoutWake(t))

\* C18: release() never suspends and the pool never deadlocks. A thread
\* inside release() is not in the wait set; it can step unless it is waiting
\* for the mutex, and then the mutex has an owner that can step; it notifies
\* with the mutex dropped. And whenever some thread is inside a pool call,
\* some thread can take a step.
NoDeadlock ==
    /\ \A t \in Threads :
          InRelease(t) =>
             /\ t \notin waitSet
             /\ pc[t] = "r_notify" => mutex_ # t
             /\ \/ ENABLED ReleaseStep(t)
                \/ /\ pc[t] = "r_lock"
                   /\ mutex_ \in Threads \ {t}
                   /\ CanStep(mutex_)
    /\ (\E t \in Threads : pc[t] # "idle") => \E u \in Threads : CanStep(u)
    /\ mutex_ # NoOwner => CanStep(mutex_)

\* C18 witness: every slot is out with a thread that is inside release()
\* waiting for the mutex, which a borrower holds; every other thread is
\* inside borrow().
NoDeadlockWitness ==
    \E t \in Threads :
        /\ pc[t] = "r_lock"
        /\ arg[t].kind = "slot"
        /\ poolSize_ > 0
        /\ freeList_ = <<>>
        /\ mutex_ \in Threads \ {t}
        /\ ~ ENABLED ReleaseStep(t)
        /\ \A u \in Threads \ {t} : InBorrow(u)

\* the ids in a sequence
Ids(seq) == {seq[k] : k \in 1..Len(seq)}

\* C19: a successful borrow() followed by release() of the handle it
\* returned, with no other borrow or release taking effect in between,
\* leaves the set of free ids and available() as the borrow found them and
\* rotates the free list by one: the id that was at the front, which is the
\* id of the slot handed out, is the one pushed and is now the tail.
RoundTrip ==
    (history.on /\ history.trip.phase = "returned") =>
        /\ history.trip.was # <<>>
        /\ history.trip.id = Head(history.trip.was)
        /\ freeList_ = Append(Tail(history.trip.was), history.trip.id)
        /\ freeList_[Len(freeList_)] = storage_[history.trip.id + 1]
        /\ Ids(freeList_) = Ids(history.trip.was)
        /\ available = Len(history.trip.was)

\* C19 witness: on a full pool of capacity 2 a borrow() took slot 0 and the
\* release() of it has just pushed it behind slot 1.
RoundTripWitness ==
    /\ history.on
    /\ history.trip = [phase |-> "returned", id |-> 0, was |-> <<0, 1>>]
    /\ freeList_ = <<1, 0>>
    /\ \E t \in Threads : pc[t] = "r_notify"

====
